---- MODULE Spec2Model ----
(***************************************************************************)
(* tiny-rag: a retrieval-augmented question answering pipeline             *)
(* (src/src/tiny_rag).                                                     *)
(*                                                                         *)
(* Spec      : one process issuing calls against the store: ingestion      *)
(*             (store_in_pgvector under retry_db) and questions (ask ->    *)
(*             answer_with_rag -> retrieve_context under retry_db ->       *)
(*             build_rag_prompt -> call_ollama).  Every psycopg2 / ollama  *)
(*             call is one step that the environment lets succeed or       *)
(*             fail.  The store is the committed content of the documents  *)
(*             table; rows inserted on a connection stay in `pending`      *)
(*             until that connection commits.  A SELECT is one atomic      *)
(*             step over the committed rows, so a concurrent ingestion     *)
(*             shows a query nothing that some sequential run does not.    *)
(* SpecChunk : chunk_with_overlap run on bounded texts and parameters.     *)
(* SpecChunkLive : the same from the call on, every pass of the loop that  *)
(*             can be made being made.                                     *)
(* SpecInfer : infer_ticker_from_query applied to bounded queries.         *)
(* SpecAnswer: answer_with_rag from the return of retrieve_context on, on  *)
(*             contents around the length of a source preview.             *)
(* SpecEmbed : request threads inside retrieve.embed_query at once.        *)
(* SpecEmbedSeq : one thread calling embed_chunks and embed_query in turn. *)
(* Spec also answers GET /health and the responses of GET /ask.            *)
(*                                                                         *)
(* Text is a sequence of one-character strings.                            *)
(***************************************************************************)
EXTENDS Integers, Sequences, FiniteSets, Bags, TLC

\* ------------------------------------------------------------------ bounds
\* Rows the documents table may come to hold.
MaxRows == 4
\* Longest batch of chunks handed to store_in_pgvector.
MaxBatch == 2
\* Largest k a question asks for.
MaxK == 2

\* ---------------------------------------------------------- text helpers
Min(a, b) == IF a < b THEN a ELSE b
Max(a, b) == IF a > b THEN a ELSE b

Upper == <<"A", "B", "C", "D", "E", "F", "G", "H", "I", "J", "K", "L", "M",
           "N", "O", "P", "Q", "R", "S", "T", "U", "V", "W", "X", "Y", "Z">>
Lower == <<"a", "b", "c", "d", "e", "f", "g", "h", "i", "j", "k", "l", "m",
           "n", "o", "p", "q", "r", "s", "t", "u", "v", "w", "x", "y", "z">>

\* str.lower() on one character.
LowerChar(c) ==
  IF \E i \in 1..Len(Upper) : Upper[i] = c
  THEN Lower[CHOOSE i \in 1..Len(Upper) : Upper[i] = c]
  ELSE c

\* str.lower()
StrLower(s) == [i \in 1..Len(s) |-> LowerChar(s[i])]

\* Python's `name in q` for strings: name occurs as a contiguous substring.
StrContains(q, name) ==
  \E i \in 0..(Len(q) - Len(name)) :
    \A j \in 1..Len(name) : q[i + j] = name[j]

\* ------------------------------------------------------- ticker inference
TICKER_MAP ==
  << <<(<<"a","l","p","h","a","b","e","t">>), "GOOGL">>,
     <<(<<"g","o","o","g","l","e">>), "GOOGL">>,
     <<(<<"a","p","p","l","e">>), "AAPL">>,
     <<(<<"m","i","c","r","o","s","o","f","t">>), "MSFT">>,
     <<(<<"a","m","a","z","o","n">>), "AMZN">>,
     <<(<<"m","e","t","a">>), "META">>,
     <<(<<"t","e","s","l","a">>), "TSLA">>,
     <<(<<"n","v","i","d","i","a">>), "NVDA">> >>

\* Python's None.
None == "None"

\* Mutant: the last matching alias of TICKER_MAP wins.
infer_ticker_from_query_last(query) ==
  LET q == StrLower(query)
      hits == {i \in 1..Len(TICKER_MAP) : StrContains(q, TICKER_MAP[i][1])}
  IN IF hits = {} THEN None
     ELSE TICKER_MAP[CHOOSE i \in hits : \A j \in hits : j <= i][2]

infer_ticker_from_query(query) ==
  LET q == StrLower(query)
      hits == {i \in 1..Len(TICKER_MAP) : StrContains(q, TICKER_MAP[i][1])}
  IN IF hits = {} THEN None
     ELSE TICKER_MAP[CHOOSE i \in hits : \A j \in hits : i <= j][2]

\* Python truthiness of an optional string: None and "" are both falsy.
Truthy(t) == t # None /\ t # ""


\* ------------------------------------------------------------- embedding
\* The embedding model is a black box text -> vector.  It is modelled as a
\* deterministic two-dimensional bag-of-characters count with strictly
\* positive components, so that cosine distance is defined for every pair.
CountChar(s, c) == Cardinality({i \in 1..Len(s) : s[i] = c})

Encode(text) == <<1 + CountChar(text, "a"), 1 + Len(text) - CountChar(text, "a")>>

Dot(u, v) == u[1] * v[1] + u[2] * v[2]

\* pgvector's <=> (cosine distance, 1 - cos): u is strictly closer to q than
\* v is.  All components are positive, so cos(u,q) > cos(v,q) can be
\* compared on squares without taking roots.
Closer(u, v, q) == Dot(u, q) * Dot(u, q) * Dot(v, v) > Dot(v, q) * Dot(v, q) * Dot(u, u)

\* --------------------------------------------------------------- the data
Tickers == {"AAPL", "GOOGL"}

TextA == <<"a", "a", "b">>
TextB == <<"b", "b">>
Contents == {TextA, TextB}

QMetaGoogle == <<"m", "e", "t", "a", " ", "G", "o", "o", "g", "l", "e">>
QRisk == <<"r", "i", "s", "k">>
Queries == {QMetaGoogle, QRisk}

\* The value of the ticker parameter of a call: absent, empty, or a symbol.
TickerParams == {None, ""} \cup Tickers

\* find_filing_txt_files pairs a ticker directory with its filing path.
SourceOf(t) == <<"sec-edgar-filings", t, "10-K", "full-submission.txt">>

\* One row of the documents table as store_in_pgvector inserts it.
Row(c, t) == [content |-> c, embedding |-> Encode(c), ticker |-> t, source |-> SourceOf(t)]

Batches == UNION {[1..n -> Contents] : n \in 0..MaxBatch}

\* The number of times x occurs in sequence s.
Occurrences(s, x) == Cardinality({i \in 1..Len(s) : s[i] = x})

RECURSIVE SeqToBag(_)
SeqToBag(s) ==
  IF s = <<>> THEN EmptyBag
  ELSE SeqToBag(Tail(s)) (+) SetToBag({Head(s)})

\* ------------------------------------------------------------ the SELECT
\* Mutant: the WHERE clause is never added.
FilterApplies_never(t) == FALSE

\* WHERE ticker = %s is part of the statement only when `if ticker:` holds.
FilterApplies(t) == Truthy(t)

Candidates(docs, t) ==
  {r \in BagToSet(docs) : FilterApplies(t) => r.ticker = t}

CandidateCount(docs, t) ==
  LET S == Candidates(docs, t)
      RECURSIVE Sum(_)
      Sum(T) == IF T = {} THEN 0
                ELSE LET x == CHOOSE y \in T : TRUE
                     IN CopiesIn(x, docs) + Sum(T \ {x})
  IN Sum(S)

\* Mutant: the statement has no ORDER BY, any min(k, m) matching rows come back.
SelectTopK_unordered(docs, t, q, kk) ==
  LET S == Candidates(docs, t)
      m == Min(kk, CandidateCount(docs, t))
  IN {r \in [1..m -> S] : \A x \in S : Occurrences(r, x) <= CopiesIn(x, docs)}

\* SELECT content, ticker, source FROM documents [WHERE ticker = t]
\* ORDER BY embedding <=> q LIMIT k: every answer the store may give.  Rows at
\* equal distance come in an order the store does not promise.
SelectTopK(docs, t, q, kk) ==
  LET S == Candidates(docs, t)
      m == Min(kk, CandidateCount(docs, t))
  IN {r \in [1..m -> S] :
        /\ \A x \in S : Occurrences(r, x) <= CopiesIn(x, docs)
        /\ \A i \in 1..(m - 1) : ~Closer(r[i + 1].embedding, r[i].embedding, q)
        /\ \A x \in S : Occurrences(r, x) < CopiesIn(x, docs)
                          => \A i \in 1..m : ~Closer(x.embedding, r[i].embedding, q)}

\* The list comprehension over fetchall(): the three selected columns.
ContextOf(row) == [content |-> row.content, ticker |-> row.ticker, source |-> row.source]

\* ------------------------------------------------------------ retry policy
\* psycopg2 error classes a store call may raise.
DbErrors == {"OperationalError", "InterfaceError", "ProgrammingError", "DataError"}

\* Mutant: every exception is retried.
IsRetryableDb_any(e) == TRUE

\* retry_if_exception_type((psycopg2.OperationalError, psycopg2.InterfaceError))
IsRetryableDb(e) == e \in {"OperationalError", "InterfaceError"}

\* stop_after_attempt(3)
MaxAttempts == 3

\* Mutant: the wrapper stops one attempt early.
ShouldStop_early(attempt_number) == attempt_number >= MaxAttempts - 1

ShouldStop(attempt_number) == attempt_number >= MaxAttempts

\* Mutant: reraise is off, tenacity raises its RetryError.
Reraise_wrapped(e) == "RetryError"

\* reraise=True: on exhaustion the last exception itself is raised; tenacity
\* would otherwise raise its own RetryError around it.
Reraise(e) == e

\* Errors of the generation service client.
OllamaErrors == {"ConnectionError", "TimeoutError", "ResponseError"}

\* The classes _ollama_retry names as retryable.
IsRetryableOllama(e) == e \in {"ConnectionError", "TimeoutError", "OSError"}


\* ---------------------------------------------------------------- prompt
Whitespace == {" ", "\n", "\t"}

\* str.strip()
RECURSIVE LStrip(_)
LStrip(s) == IF s # <<>> /\ Head(s) \in Whitespace THEN LStrip(Tail(s)) ELSE s

RECURSIVE RStrip(_)
RStrip(s) ==
  IF s # <<>> /\ s[Len(s)] \in Whitespace THEN RStrip(SubSeq(s, 1, Len(s) - 1)) ELSE s

Strip(s) == LStrip(RStrip(s))

Digits == <<"0", "1", "2", "3", "4", "5", "6", "7", "8", "9">>

\* str(i) for i >= 0
RECURSIVE IntToStr(_)
IntToStr(i) ==
  IF i < 10 THEN <<Digits[i + 1]>>
  ELSE IntToStr(i \div 10) \o <<Digits[(i % 10) + 1]>>

PromptHead ==
  <<
     "U", "s", "e", " ", "t", "h", "e", " ", "f", "o", "l", "l", "o", "w",
     "i", "n", "g", " ", "c", "o", "n", "t", "e", "x", "t", " ", "t", "o",
     " ", "a", "n", "s", "w", "e", "r", " ", "t", "h", "e", " ", "q", "u",
     "e", "s", "t", "i", "o", "n", ".", " ", "C", "i", "t", "e", " ", "s",
     "o", "u", "r", "c", "e", "s", " ", "w", "i", "t", "h", " ", "[", "1",
     "]", ",", " ", "[", "2", "]", ",", " ", "e", "t", "c", ".", "\n", "\n",
     "C", "o", "n", "t", "e", "x", "t", ":", "\n" >>

PromptQuestion ==
  <<
     "\n", "\n", "Q", "u", "e", "s", "t", "i", "o", "n", ":", " " >>

PromptTail ==
  <<
     "\n", "\n", "A", "n", "s", "w", "e", "r", " ", "(", "w", "i", "t", "h",
     " ", "c", "i", "t", "a", "t", "i", "o", "n", "s", ")", ":" >>

PromptSeparator ==
  <<
     "\n", "\n", "-", "-", "-", "\n", "\n" >>

\* Mutant: the contexts are numbered from 0.
ContextPart_fromZero(i, ctx) ==
  <<"[">> \o IntToStr(i - 1) \o <<"]", " ", "(", ctx.ticker, ")", "\n">> \o Strip(ctx.content)

\* f"[{i}] ({ticker})\n{content}"; a ticker is one symbol of the text.
ContextPart(i, ctx) ==
  <<"[">> \o IntToStr(i) \o <<"]", " ", "(", ctx.ticker, ")", "\n">> \o Strip(ctx.content)

\* "\n\n---\n\n".join(context_parts), parts i..n
RECURSIVE JoinParts(_, _)
JoinParts(contexts, i) ==
  IF i > Len(contexts) THEN <<>>
  ELSE ContextPart(i, contexts[i])
       \o (IF i < Len(contexts) THEN PromptSeparator ELSE <<>>)
       \o JoinParts(contexts, i + 1)

build_rag_prompt(query, contexts) ==
  PromptHead \o JoinParts(contexts, 1) \o PromptQuestion \o query \o PromptTail

\* c["content"][:200] + "..."
PreviewLen == 200

\* Mutant: the content is not cut.
Preview_whole(content) == content \o <<".", ".", ".">>

Preview(content) == SubSeq(content, 1, Min(PreviewLen, Len(content))) \o <<".", ".", ".">>

SourceEntry(c) == [ticker |-> c.ticker, content |-> Preview(c.content)]

SentinelAnswer == "No relevant context found."

\* What the language model may answer: any text, the sentinel's included.
Answers == {"Revenue grew 10% [1].", SentinelAnswer}

\* Mutant: the empty-result check is gone.
NoContexts_never(ctxs) == FALSE

\* `if not contexts:` in answer_with_rag
NoContexts(ctxs) == ctxs = <<>>


\* --------------------------------------------------------------- chunker
\* Bounds of the chunker's inputs.
MaxTextLen == 5
MaxChunkSize == 4
MaxOverlap == 4
\* Passes of the window loop before a run that cannot end is left alone.
MaxIters == 8

TextAlphabet == {"a", " "}

ChunkTexts == UNION {[1..n -> TextAlphabet] : n \in 0..MaxTextLen}

\* The tokenizer is a black box with a fixed vocabulary; it is modelled as
\* greedy longest-match over this vocabulary, a token being the piece of text
\* it stands for.  Decoding concatenates the pieces.
Vocabulary == {<<"a">>, <<" ">>, <<" ", "a">>, <<"a", "a">>}

IsPrefix(p, s) == Len(p) <= Len(s) /\ \A i \in 1..Len(p) : s[i] = p[i]

LongestToken(s) ==
  CHOOSE t \in Vocabulary :
    /\ IsPrefix(t, s)
    /\ \A u \in Vocabulary : IsPrefix(u, s) => Len(u) <= Len(t)

\* encoding.encode(text)
RECURSIVE TokenEncode(_)
TokenEncode(s) ==
  IF s = <<>> THEN <<>>
  ELSE LET t == LongestToken(s)
       IN <<t>> \o TokenEncode(SubSeq(s, Len(t) + 1, Len(s)))

\* encoding.decode(tokens)
RECURSIVE TokenDecode(_)
TokenDecode(toks) ==
  IF toks = <<>> THEN <<>> ELSE Head(toks) \o TokenDecode(Tail(toks))

\* Python's index normalisation in s[a:b] for a sequence of length n.
SliceIndex(i, n) == IF i < 0 THEN Max(i + n, 0) ELSE Min(i, n)

\* s[a:b]
PySlice(s, a, b) == SubSeq(s, SliceIndex(a, Len(s)) + 1, SliceIndex(b, Len(s)))

\* Mutant: the window jumps past its own end.
Stride_gapped(size, ovl) == size + 1

\* Mutant: the window does not advance.
Stride_stuck(size, ovl) == 0

\* stride = chunk_size - overlap
Stride(size, ovl) == size - ovl

\* Mutant: a window runs to the end of the tokens.
WindowEnd_uncapped(st, size, n) == n

\* end = min(start + chunk_size, len(tokens))
WindowEnd(st, size, n) == Min(st + size, n)

\* `if chunk_text.strip():`
NonBlank(chunk_text) == Strip(chunk_text) # <<>>

\* ================================================================= state
VARIABLES
  documents,        \* the committed rows of the documents table (a bag)
  tableExists,      \* init_pgvector's CREATE TABLE has been committed
  pc,               \* where the process is
  op,               \* the call in progress: "none", "store", "retrieve", "ask"
  query, k, ticker, \* arguments of retrieve_context
  tickerParam,      \* the ticker parameter GET /ask was called with
  batch,            \* chunks handed to store_in_pgvector
  batchTicker,      \* its ticker argument
  attempt,          \* tenacity's attempt_number
  log,              \* outcome of each run of the wrapped function so far
  err,              \* the exception in flight
  conn,             \* the running attempt holds an open connection
  pending,          \* rows inserted on it and not yet committed
  callConns,        \* connections this call opened that are still open
  committedByCall,  \* rows this call has committed to the table
  embedding_model,  \* retrieve._embedding_model is loaded
  embedCalls,       \* embed_query calls made by this call
  contexts,         \* what retrieve_context returned
  prompt,           \* the prompt handed to call_ollama
  ollamaCalls,      \* ollama.chat calls made by this call
  result,           \* what answer_with_rag returned
  status,           \* HTTP status of the response, 0 while there is none
  body,             \* the body of a /health response
  health,           \* what the two checks of /health returned
  text, chunk_size, overlap,  \* arguments of chunk_with_overlap
  cpc,              \* where chunk_with_overlap is: "off", "loop", "returned"
  start,            \* its local `start`
  chunks,           \* its local `chunks`
  windows,          \* the <<start, end>> of every window taken so far
  tpc,              \* per thread: where it is in embed_query / embed_chunks
  targ,             \* per thread: the texts it is embedding
  tmodel,           \* per thread: the model instance it holds, 0 for none
  tencoded,         \* per thread: what model.encode gave it last
  model_instance,   \* retrieve._embedding_model: an instance, 0 for None
  loadLog           \* the function behind each SentenceTransformer(...) so far

storeVars == <<documents, tableExists>>
argVars == <<op, query, k, ticker, tickerParam, batch, batchTicker>>
apiVars == <<status, body, health>>
ragVars == <<contexts, prompt, ollamaCalls, result>>
vars == <<documents, tableExists, pc, op, query, k, ticker, tickerParam, batch,
          batchTicker, attempt, log, err, conn, pending, callConns, committedByCall,
          embedding_model, embedCalls, contexts, prompt, ollamaCalls, result,
          status, body, health,
          text, chunk_size, overlap, cpc, start, chunks, windows,
          tpc, targ, tmodel, tencoded, model_instance, loadLog>>
chunkVars == <<text, chunk_size, overlap, cpc, start, chunks, windows>>
ragAllVars == <<documents, tableExists, pc, op, query, k, ticker, tickerParam, batch,
                batchTicker, attempt, log, err, conn, pending, callConns,
                committedByCall, embedding_model, embedCalls, contexts, prompt,
                ollamaCalls, result, status, body, health>>
embedVars == <<tpc, targ, tmodel, tencoded, model_instance, loadLog>>
\* Everything of the process but the flag of the cached model.
callVars == <<documents, tableExists, pc, op, query, k, ticker, tickerParam, batch,
              batchTicker, attempt, log, err, conn, pending, callConns,
              committedByCall, embedCalls, contexts, prompt, ollamaCalls, result,
              status, body, health>>

\* Threads of the process that may be inside an embedding call at once.
NumThreads == 2
Threads == 1..NumThreads

NoResult == [answer |-> None, sources |-> <<>>]

\* /health: a check's (ok, message) pair, and the response body.
NotChecked == <<FALSE, "">>
NoBody == [status |-> "", database |-> "", ollama |-> "", error |-> ""]
NoHealth == [database |-> NotChecked, ollama |-> NotChecked]

ChunkerOff ==
  /\ text = <<>> /\ chunk_size = 1 /\ overlap = 0
  /\ cpc = "off" /\ start = 0 /\ chunks = <<>> /\ windows = <<>>

RagIdle ==
  /\ documents = EmptyBag
  /\ tableExists = FALSE
  /\ pc = "idle"
  /\ op = "none"
  /\ query = <<>> /\ k = 0 /\ ticker = None /\ tickerParam = None
  /\ batch = <<>> /\ batchTicker = None
  /\ attempt = 0 /\ log = <<>> /\ err = None
  /\ conn = FALSE /\ pending = <<>> /\ callConns = 0 /\ committedByCall = 0
  /\ embedding_model = FALSE /\ embedCalls = 0
  /\ contexts = <<>> /\ prompt = <<>> /\ ollamaCalls = 0 /\ result = NoResult
  /\ status = 0 /\ body = NoBody /\ health = NoHealth

\* No embedding call has been made: the module global is None.
EmbedOff ==
  /\ tpc = [t \in Threads |-> "idle"]
  /\ targ = [t \in Threads |-> <<>>]
  /\ tmodel = [t \in Threads |-> 0]
  /\ tencoded = [t \in Threads |-> <<>>]
  /\ model_instance = 0
  /\ loadLog = <<>>

Init == RagIdle /\ ChunkerOff /\ EmbedOff

\* A call begins: tenacity's first attempt, nothing done yet.
Begin(o, first) ==
  /\ pc = "idle"
  /\ op' = o
  /\ pc' = first
  /\ attempt' = 1 /\ log' = <<>> /\ err' = None
  /\ conn' = FALSE /\ pending' = <<>> /\ callConns' = 0 /\ committedByCall' = 0
  /\ embedCalls' = 0
  /\ contexts' = <<>> /\ prompt' = <<>> /\ ollamaCalls' = 0 /\ result' = NoResult
  /\ status' = 0 /\ body' = NoBody /\ health' = NoHealth
  /\ UNCHANGED <<storeVars, embedding_model>>
  /\ UNCHANGED <<chunkVars, embedVars>>

\* The wrapped function raises e out of its body.  Nothing closes the
\* connection on this path: it stays open, and its transaction uncommitted.
Raise(e) ==
  /\ err' = e
  /\ log' = Append(log, e)
  /\ conn' = FALSE
  /\ pending' = <<>>
  /\ pc' = "retry"
  /\ UNCHANGED <<argVars, attempt, callConns, embedding_model, embedCalls, ragVars>>
  /\ UNCHANGED <<apiVars, chunkVars, embedVars>>

\* ------------------------------------------------------------- ingestion
\* ingest_all calls store_in_pgvector(chunks, embeddings, ticker, source).
StartStore(batch_chunks, t) ==
  /\ BagCardinality(documents) + Len(batch_chunks) <= MaxRows
  /\ Begin("store", "st_connect")
  /\ batch' = batch_chunks /\ batchTicker' = t
  /\ query' = <<>> /\ k' = 0 /\ ticker' = None /\ tickerParam' = None

\* psycopg2.connect(DATABASE_URL)
StoreConnect ==
  /\ pc = "st_connect"
  /\ conn' = TRUE /\ callConns' = callConns + 1
  /\ pc' = "st_init"
  /\ UNCHANGED <<storeVars, argVars, attempt, log, err, pending, committedByCall,
                 embedding_model, embedCalls, ragVars>>
  /\ UNCHANGED <<apiVars, chunkVars, embedVars>>

StoreConnectFail ==
  /\ pc = "st_connect"
  /\ Raise("OperationalError")
  /\ UNCHANGED <<storeVars, committedByCall>>

\* init_pgvector(conn): CREATE EXTENSION / TABLE IF NOT EXISTS, commit.
StoreInit ==
  /\ pc = "st_init"
  /\ tableExists' = TRUE
  /\ pc' = "st_insert"
  /\ UNCHANGED <<documents, argVars, attempt, log, err, conn, pending, callConns,
                 committedByCall, embedding_model, embedCalls, ragVars>>
  /\ UNCHANGED <<apiVars, chunkVars, embedVars>>

\* The connection fails during init_pgvector, before or after its commit.
StoreInitFail(e, created) ==
  /\ pc = "st_init"
  /\ tableExists' = (tableExists \/ created)
  /\ Raise(e)
  /\ UNCHANGED <<documents, committedByCall>>

\* One pass of `for content, embedding in zip(chunks, embeddings)`.
StoreInsert ==
  /\ pc = "st_insert"
  /\ Len(pending) < Len(batch)
  /\ pending' = Append(pending, Row(batch[Len(pending) + 1], batchTicker))
  /\ UNCHANGED <<storeVars, pc, argVars, attempt, log, err, conn, callConns,
                 committedByCall, embedding_model, embedCalls, ragVars>>
  /\ UNCHANGED <<apiVars, chunkVars, embedVars>>

StoreInsertFail(e) ==
  /\ pc = "st_insert"
  /\ Len(pending) < Len(batch)
  /\ Raise(e)
  /\ UNCHANGED <<storeVars, committedByCall>>

\* The rows a commit makes visible.
Committed(docs, rows) == docs (+) SeqToBag(rows)

\* conn.commit() after the loop.
StoreCommit ==
  /\ pc = "st_insert"
  /\ Len(pending) = Len(batch)
  /\ documents' = Committed(documents, pending)
  /\ committedByCall' = committedByCall + Len(pending)
  /\ pending' = <<>>
  /\ pc' = "st_close"
  /\ UNCHANGED <<tableExists, argVars, attempt, log, err, conn, callConns,
                 embedding_model, embedCalls, ragVars>>
  /\ UNCHANGED <<apiVars, chunkVars, embedVars>>

\* conn.commit() raises: the connection was lost before the server took the
\* COMMIT (applied = FALSE) or after it did and before the client heard of it.
\* The table is kept within MaxRows: an applied commit is lost this way only
\* while the table has room for the rows of the attempt that may follow.
StoreCommitFail(e, applied) ==
  /\ pc = "st_insert"
  /\ Len(pending) = Len(batch)
  /\ applied => BagCardinality(documents) + 2 * Len(pending) <= MaxRows
  /\ documents' = IF applied THEN Committed(documents, pending) ELSE documents
  /\ committedByCall' = IF applied THEN committedByCall + Len(pending) ELSE committedByCall
  /\ Raise(e)
  /\ UNCHANGED tableExists

\* cur.close(); conn.close(); the function returns None.
StoreClose ==
  /\ pc = "st_close"
  /\ conn' = FALSE /\ callConns' = callConns - 1
  /\ log' = Append(log, "ok")
  /\ pc' = "returned"
  /\ UNCHANGED <<storeVars, argVars, attempt, err, pending, committedByCall,
                 embedding_model, embedCalls, ragVars>>
  /\ UNCHANGED <<apiVars, chunkVars, embedVars>>

\* ------------------------------------------------------------- tenacity
FirstStep(o) == IF o = "store" THEN "st_connect" ELSE "rc_embed"

\* The exception is retryable and attempts remain: sleep, then run again.
RetryAgain ==
  /\ pc = "retry"
  /\ IsRetryableDb(err) /\ ~ShouldStop(attempt)
  /\ attempt' = attempt + 1
  /\ err' = None
  /\ pc' = FirstStep(op)
  /\ UNCHANGED <<storeVars, argVars, log, conn, pending, callConns, committedByCall,
                 embedding_model, embedCalls, ragVars>>
  /\ UNCHANGED <<apiVars, chunkVars, embedVars>>

\* The exception is not retryable, or the attempts are used up.
RetryGiveUp ==
  /\ pc = "retry"
  /\ ~(IsRetryableDb(err) /\ ~ShouldStop(attempt))
  /\ err' = IF IsRetryableDb(err) THEN Reraise(err) ELSE err
  /\ pc' = "raised"
  /\ UNCHANGED <<storeVars, argVars, attempt, log, conn, pending, callConns,
                 committedByCall, embedding_model, embedCalls, ragVars>>
  /\ UNCHANGED <<apiVars, chunkVars, embedVars>>

\* ------------------------------------------------------------- retrieval
\* Mutant: a ticker inferred from the question overrides the parameter.
TickerUsed_inferredFirst(q, t) ==
  IF infer_ticker_from_query(q) # None THEN infer_ticker_from_query(q) ELSE t

\* GET /ask: ticker_used = ticker or infer_ticker_from_query(q)
TickerUsed(q, t) == IF Truthy(t) THEN t ELSE infer_ticker_from_query(q)

StartAsk(q, kk, t) ==
  /\ Begin("ask", "rc_embed")
  /\ query' = q /\ k' = kk /\ tickerParam' = t /\ ticker' = TickerUsed(q, t)
  /\ UNCHANGED <<batch, batchTicker>>

\* retrieve_context called directly with its own arguments.
StartRetrieve(q, kk, t) ==
  /\ Begin("retrieve", "rc_embed")
  /\ query' = q /\ k' = kk /\ ticker' = t /\ tickerParam' = None
  /\ UNCHANGED <<batch, batchTicker>>

\* embedding = embed_query(query)
RetrieveEmbed ==
  /\ pc = "rc_embed"
  /\ embedding_model' = TRUE
  /\ embedCalls' = embedCalls + 1
  /\ pc' = "rc_connect"
  /\ UNCHANGED <<storeVars, argVars, attempt, log, err, conn, pending, callConns,
                 committedByCall, ragVars>>
  /\ UNCHANGED <<apiVars, chunkVars, embedVars>>

RetrieveConnect ==
  /\ pc = "rc_connect"
  /\ conn' = TRUE /\ callConns' = callConns + 1
  /\ pc' = "rc_execute"
  /\ UNCHANGED <<storeVars, argVars, attempt, log, err, pending, committedByCall,
                 embedding_model, embedCalls, ragVars>>
  /\ UNCHANGED <<apiVars, chunkVars, embedVars>>

RetrieveConnectFail ==
  /\ pc = "rc_connect"
  /\ Raise("OperationalError")
  /\ UNCHANGED <<storeVars, committedByCall>>

\* cur.execute(SELECT ...); rows = cur.fetchall()
RetrieveExecute ==
  /\ pc = "rc_execute"
  /\ tableExists
  /\ \E r \in SelectTopK(documents, ticker, Encode(query), k) :
       contexts' = [i \in 1..Len(r) |-> ContextOf(r[i])]
  /\ pc' = "rc_close"
  /\ UNCHANGED <<storeVars, argVars, attempt, log, err, conn, pending, callConns,
                 committedByCall, embedding_model, embedCalls, prompt, ollamaCalls,
                 result>>
  /\ UNCHANGED <<apiVars, chunkVars, embedVars>>

\* The statement fails: the connection drops, or the table is not there
\* (UndefinedTable, a ProgrammingError).
RetrieveExecuteFail(e) ==
  /\ pc = "rc_execute"
  /\ e = "ProgrammingError" => ~tableExists
  /\ Raise(e)
  /\ UNCHANGED <<storeVars, committedByCall>>

\* cur.close(); conn.close(); return the list of dicts.
RetrieveClose ==
  /\ pc = "rc_close"
  /\ conn' = FALSE /\ callConns' = callConns - 1
  /\ log' = Append(log, "ok")
  /\ pc' = IF op = "ask" THEN "rag_check" ELSE "returned"
  /\ UNCHANGED <<storeVars, argVars, attempt, err, pending, committedByCall,
                 embedding_model, embedCalls, ragVars>>
  /\ UNCHANGED <<apiVars, chunkVars, embedVars>>

\* ------------------------------------------------------- answer_with_rag
\* `if not contexts: return {...}`, else build the prompt.
RagCheck ==
  /\ pc = "rag_check"
  /\ IF NoContexts(contexts)
     THEN /\ result' = [answer |-> SentinelAnswer, sources |-> <<>>]
          /\ pc' = "returned"
          /\ UNCHANGED prompt
     ELSE /\ prompt' = build_rag_prompt(query, contexts)
          /\ pc' = "rag_llm"
          /\ UNCHANGED result
  /\ UNCHANGED <<storeVars, argVars, attempt, log, err, conn, pending, callConns,
                 committedByCall, embedding_model, embedCalls, contexts, ollamaCalls>>
  /\ UNCHANGED <<apiVars, chunkVars, embedVars>>

\* answer = call_ollama(prompt); return {"answer": ..., "sources": [...]}
CallOllama(a) ==
  /\ pc = "rag_llm"
  /\ ollamaCalls' = ollamaCalls + 1
  /\ result' = [answer |-> a,
                sources |-> [i \in 1..Len(contexts) |-> SourceEntry(contexts[i])]]
  /\ pc' = "returned"
  /\ UNCHANGED <<storeVars, argVars, attempt, log, err, conn, pending, callConns,
                 committedByCall, embedding_model, embedCalls, contexts, prompt>>
  /\ UNCHANGED <<apiVars, chunkVars, embedVars>>

\* ollama.chat raises; call_ollama carries no retry decorator, so the
\* exception leaves answer_with_rag at once.
CallOllamaFail(e) ==
  /\ pc = "rag_llm"
  /\ ollamaCalls' = ollamaCalls + 1
  /\ err' = e
  /\ pc' = "raised"
  /\ UNCHANGED <<storeVars, argVars, attempt, log, conn, pending, callConns,
                 committedByCall, embedding_model, embedCalls, contexts, prompt,
                 result>>
  /\ UNCHANGED <<apiVars, chunkVars, embedVars>>

\* ------------------------------------------------------------ the API
\* What FastAPI answers before `ask` runs: 401 from verify_api_key when a
\* key is configured and the header is wrong, 422 when q is missing or k is
\* outside 1..20.
Rejections == {401, 422}

AskRejected(code) ==
  /\ pc = "idle"
  /\ op' = "ask"
  /\ status' = code
  /\ pc' = "responded"
  /\ UNCHANGED <<storeVars, query, k, ticker, tickerParam, batch, batchTicker, attempt,
                 log, err, conn, pending, callConns, committedByCall, embedding_model,
                 embedCalls, ragVars, body, health>>
  /\ UNCHANGED <<chunkVars, embedVars>>

\* The status of the response to a request whose handler returned (200) or
\* let an exception out: `ask` catches nothing and the application registers
\* no exception handler, so the server's default answer is 500.
StatusOf(outcome) == IF outcome = "returned" THEN 200 ELSE 500

AskRespond ==
  /\ op = "ask" /\ pc \in {"returned", "raised"}
  /\ status = 0
  /\ status' = StatusOf(pc)
  /\ UNCHANGED <<storeVars, pc, argVars, attempt, log, err, conn, pending, callConns,
                 committedByCall, embedding_model, embedCalls, ragVars, body, health>>
  /\ UNCHANGED <<chunkVars, embedVars>>

\* What a check of /health gives back: (True, "ok"), (False, message), or
\* an exception it lets out.
CheckResults == {<<TRUE, "ok">>, <<FALSE, "connection refused">>, <<FALSE, "timed out">>}

\* GET /health
StartHealth ==
  /\ pc = "idle"
  /\ op' = "health"
  /\ pc' = "h_database"
  /\ UNCHANGED <<storeVars, query, k, ticker, tickerParam, batch, batchTicker, attempt,
                 log, err, conn, pending, callConns, committedByCall, embedding_model,
                 embedCalls, ragVars, apiVars>>
  /\ UNCHANGED <<chunkVars, embedVars>>

\* db_ok, db_msg = check_database()
HealthDatabase(r) ==
  /\ pc = "h_database"
  /\ health' = [health EXCEPT !.database = r]
  /\ pc' = "h_ollama"
  /\ UNCHANGED <<storeVars, argVars, attempt, log, err, conn, pending, callConns,
                 committedByCall, embedding_model, embedCalls, ragVars, status, body>>
  /\ UNCHANGED <<chunkVars, embedVars>>

\* ollama_ok, ollama_msg = check_ollama()
HealthOllama(r) ==
  /\ pc = "h_ollama"
  /\ health' = [health EXCEPT !.ollama = r]
  /\ pc' = "h_respond"
  /\ UNCHANGED <<storeVars, argVars, attempt, log, err, conn, pending, callConns,
                 committedByCall, embedding_model, embedCalls, ragVars, status, body>>
  /\ UNCHANGED <<chunkVars, embedVars>>

\* Either check lets an exception out into the handler's try block.
HealthCheckRaises(e) ==
  /\ pc \in {"h_database", "h_ollama"}
  /\ err' = e
  /\ pc' = "h_except"
  /\ UNCHANGED <<storeVars, argVars, attempt, log, conn, pending, callConns,
                 committedByCall, embedding_model, embedCalls, ragVars, apiVars>>
  /\ UNCHANGED <<chunkVars, embedVars>>

\* Mutant: one passing check is enough.
Healthy_either(db_ok, ollama_ok) == db_ok \/ ollama_ok

\* healthy = db_ok and ollama_ok
Healthy(db_ok, ollama_ok) == db_ok /\ ollama_ok

\* The response dict, returned as it is or inside JSONResponse(503).
HealthRespond ==
  /\ pc = "h_respond"
  /\ LET db_ok == health.database[1]
         ollama_ok == health.ollama[1]
         healthy == Healthy(db_ok, ollama_ok)
     IN /\ body' = [status |-> IF healthy THEN "healthy" ELSE "unhealthy",
                    database |-> IF db_ok THEN "ok" ELSE health.database[2],
                    ollama |-> IF ollama_ok THEN "ok" ELSE health.ollama[2],
                    error |-> ""]
        /\ status' = IF ~healthy THEN 503 ELSE 200
  /\ pc' = "responded"
  /\ UNCHANGED <<storeVars, argVars, attempt, log, err, conn, pending, callConns,
                 committedByCall, embedding_model, embedCalls, ragVars, health>>
  /\ UNCHANGED <<chunkVars, embedVars>>

\* except Exception as e: JSONResponse(503, {"status": "unhealthy", "error": str(e)})
HealthExcept ==
  /\ pc = "h_except"
  /\ body' = [NoBody EXCEPT !.status = "unhealthy", !.error = err]
  /\ status' = 503
  /\ pc' = "responded"
  /\ UNCHANGED <<storeVars, argVars, attempt, log, err, conn, pending, callConns,
                 committedByCall, embedding_model, embedCalls, ragVars, health>>
  /\ UNCHANGED <<chunkVars, embedVars>>

\* The caller has its value or its exception, the client its response; the
\* process is free again.
Finish ==
  /\ pc \in {"returned", "raised", "responded"}
  /\ op = "ask" => status # 0
  /\ pc' = "idle"
  /\ op' = "none"
  /\ query' = <<>> /\ k' = 0 /\ ticker' = None /\ tickerParam' = None
  /\ batch' = <<>> /\ batchTicker' = None
  /\ attempt' = 0 /\ log' = <<>> /\ err' = None
  /\ conn' = FALSE /\ pending' = <<>> /\ callConns' = 0 /\ committedByCall' = 0
  /\ embedCalls' = 0
  /\ contexts' = <<>> /\ prompt' = <<>> /\ ollamaCalls' = 0 /\ result' = NoResult
  /\ status' = 0 /\ body' = NoBody /\ health' = NoHealth
  /\ UNCHANGED <<storeVars, embedding_model>>
  /\ UNCHANGED <<chunkVars, embedVars>>

Next ==
  \/ \E batch_chunks \in Batches, t \in Tickers : StartStore(batch_chunks, t)
  \/ StoreConnect
  \/ StoreConnectFail
  \/ StoreInit
  \/ \E created \in BOOLEAN : StoreInitFail("OperationalError", created)
  \/ StoreInsert
  \/ \E e \in {"OperationalError", "InterfaceError", "DataError"} : StoreInsertFail(e)
  \/ StoreCommit
  \/ \E applied \in BOOLEAN : StoreCommitFail("OperationalError", applied)
  \/ StoreClose
  \/ RetryAgain
  \/ RetryGiveUp
  \/ \E q \in Queries, kk \in 1..MaxK, t \in TickerParams : StartAsk(q, kk, t)
  \/ \E q \in Queries, kk \in 1..MaxK, t \in TickerParams : StartRetrieve(q, kk, t)
  \/ RetrieveEmbed
  \/ RetrieveConnect
  \/ RetrieveConnectFail
  \/ RetrieveExecute
  \/ \E e \in {"OperationalError", "ProgrammingError"} : RetrieveExecuteFail(e)
  \/ RetrieveClose
  \/ RagCheck
  \/ \E a \in Answers : CallOllama(a)
  \/ \E e \in OllamaErrors : CallOllamaFail(e)
  \/ \E code \in Rejections : AskRejected(code)
  \/ AskRespond
  \/ StartHealth
  \/ \E r \in CheckResults : HealthDatabase(r)
  \/ \E r \in CheckResults : HealthOllama(r)
  \/ HealthCheckRaises("RuntimeError")
  \/ HealthExcept
  \/ HealthRespond
  \/ Finish

Spec == Init /\ [][Next]_vars

\* -------------------------------------------------- chunk_with_overlap
Tokens == TokenEncode(text)

\* One pass of `while start < len(tokens):` from the window to the break.
ChunkStep ==
  /\ cpc = "loop"
  /\ start < Len(Tokens)
  /\ Stride(chunk_size, overlap) > 0 \/ Len(windows) < MaxIters
  /\ LET end == WindowEnd(start, chunk_size, Len(Tokens))
         chunk_text == TokenDecode(PySlice(Tokens, start, end))
         next == start + Stride(chunk_size, overlap)
     IN /\ chunks' = IF NonBlank(chunk_text) THEN Append(chunks, chunk_text) ELSE chunks
        /\ windows' = Append(windows, <<start, end>>)
        /\ start' = next
        /\ cpc' = IF next >= Len(Tokens) THEN "returned" ELSE "loop"
  /\ UNCHANGED <<text, chunk_size, overlap>>
  /\ UNCHANGED <<ragAllVars, embedVars>>

\* The loop condition fails on entry: `return chunks`.
ChunkReturn ==
  /\ cpc = "loop"
  /\ ~(start < Len(Tokens))
  /\ cpc' = "returned"
  /\ UNCHANGED <<text, chunk_size, overlap, start, chunks, windows>>
  /\ UNCHANGED <<ragAllVars, embedVars>>

ChunkInit ==
  /\ RagIdle
  /\ text \in ChunkTexts
  /\ chunk_size \in 1..MaxChunkSize
  /\ overlap \in 0..MaxOverlap
  /\ cpc = "loop" /\ start = 0 /\ chunks = <<>> /\ windows = <<>>
  /\ EmbedOff

ChunkNext == ChunkStep \/ ChunkReturn

SpecChunk == ChunkInit /\ [][ChunkNext]_vars

\* chunk_with_overlap(text, chunk_size, overlap) is called: tokens are
\* encoded, start = 0, chunks = [].
ChunkCall(txt, size, ovl) ==
  /\ cpc = "off"
  /\ text' = txt /\ chunk_size' = size /\ overlap' = ovl
  /\ cpc' = "loop"
  /\ UNCHANGED <<start, chunks, windows>>
  /\ UNCHANGED <<ragAllVars, embedVars>>

ChunkLiveNext ==
  \/ \E txt \in ChunkTexts, size \in 1..MaxChunkSize, ovl \in 0..MaxOverlap :
       ChunkCall(txt, size, ovl)
  \/ ChunkStep
  \/ ChunkReturn

\* A pass of the loop, or the return, can be taken.
ChunkCanPass ==
  /\ cpc = "loop"
  /\ \/ ~(start < Len(Tokens))
     \/ Stride(chunk_size, overlap) > 0
     \/ Len(windows) < MaxIters

\* The interpreter does not stop in the middle of the loop: a pass that can
\* be made is made.  This is weak fairness of ChunkStep \/ ChunkReturn, with
\* the enabling condition ChunkCanPass written out.
ChunkFair == []<>(~ChunkCanPass) \/ []<><<ChunkStep \/ ChunkReturn>>_vars

\* The same runs from the call on, under that fairness.
SpecChunkLive == Init /\ [][ChunkLiveNext]_vars /\ ChunkFair


\* ------------------------------------------------ infer_ticker_from_query
\* Queries put together from at most MaxPieces pieces: aliases in several
\* spellings, halves of an alias, and filler.
MaxPieces == 3

QueryPieces ==
  {<<"m", "e", "t", "a">>,
   <<"A", "p", "p", "l", "e">>,
   <<"G", "O", "O", "G", "L", "E">>,
   <<"a", "l", "p", "h", "a", "b", "e", "t">>,
   <<"T", "e", "s", "l", "a">>,
   <<"a", "p", "p">>,
   <<"l", "e">>,
   <<" ">>,
   <<"s">>}

RECURSIVE Concat(_)
Concat(ps) == IF ps = <<>> THEN <<>> ELSE Head(ps) \o Concat(Tail(ps))

InferQueries == {Concat(ps) : ps \in UNION {[1..n -> QueryPieces] : n \in 0..MaxPieces}}

\* ticker = infer_ticker_from_query(query)
InferCall ==
  /\ pc = "infer"
  /\ ticker' = infer_ticker_from_query(query)
  /\ pc' = "inferred"
  /\ UNCHANGED <<storeVars, op, query, k, tickerParam, batch, batchTicker, attempt,
                 log, err, conn, pending, callConns, committedByCall, embedding_model,
                 embedCalls, ragVars>>
  /\ UNCHANGED <<apiVars, chunkVars, embedVars>>

InferInit ==
  /\ documents = EmptyBag /\ tableExists = FALSE
  /\ pc = "infer" /\ op = "none"
  /\ query \in InferQueries /\ k = 0 /\ ticker = None /\ tickerParam = None
  /\ batch = <<>> /\ batchTicker = None
  /\ attempt = 0 /\ log = <<>> /\ err = None
  /\ conn = FALSE /\ pending = <<>> /\ callConns = 0 /\ committedByCall = 0
  /\ embedding_model = FALSE /\ embedCalls = 0
  /\ contexts = <<>> /\ prompt = <<>> /\ ollamaCalls = 0 /\ result = NoResult
  /\ status = 0 /\ body = NoBody /\ health = NoHealth
  /\ ChunkerOff /\ EmbedOff

InferNext == InferCall

SpecInfer == InferInit /\ [][InferNext]_vars

\* ----------------------------------- answer_with_rag after retrieve_context
\* The second half of answer_with_rag on richer contexts than the store
\* model above holds: contents shorter than, as long as and longer than the
\* preview, and one with blanks around it.
MaxContexts == 2

LongText(n) == [i \in 1..n |-> IF i % 2 = 1 THEN "a" ELSE "b"]

TextPadded == <<" ", "b", "a", "\n">>

AnswerContents ==
  {TextA, TextPadded, LongText(PreviewLen - 1), LongText(PreviewLen), LongText(PreviewLen + 1)}

QNoAlias == <<"A", "I", "?">>
AnswerQueries == {QRisk, QNoAlias}

\* Lists of at most MaxContexts contexts as retrieve_context hands them
\* over.  Which of two contents is nearer to a query is the embedding
\* model's affair, so every order is one answer_with_rag can receive.
ContextLists ==
  UNION {[1..n -> {ContextOf(Row(c, t)) : c \in AnswerContents, t \in Tickers}]
          : n \in 0..MaxContexts}

\* answer_with_rag(query, k): retrieve_context has returned, at its first
\* attempt, every row of the table.
AnswerInit ==
  /\ query \in AnswerQueries
  /\ contexts \in ContextLists
  /\ documents = SeqToBag([i \in 1..Len(contexts) |-> Row(contexts[i].content, contexts[i].ticker)])
  /\ tableExists = TRUE
  /\ pc = "rag_check" /\ op = "ask"
  /\ k = MaxContexts /\ ticker = None /\ tickerParam = None
  /\ batch = <<>> /\ batchTicker = None
  /\ attempt = 1 /\ log = <<"ok">> /\ err = None
  /\ conn = FALSE /\ pending = <<>> /\ callConns = 0 /\ committedByCall = 0
  /\ embedding_model = TRUE /\ embedCalls = 1
  /\ prompt = <<>> /\ ollamaCalls = 0 /\ result = NoResult
  /\ status = 0 /\ body = NoBody /\ health = NoHealth
  /\ ChunkerOff /\ EmbedOff

AnswerNext ==
  \/ RagCheck
  \/ \E a \in Answers : CallOllama(a)
  \/ \E e \in OllamaErrors : CallOllamaFail(e)

SpecAnswer == AnswerInit /\ [][AnswerNext]_vars


\* ------------------------------------------------- the embedding model
\* SentenceTransformer(...) constructions a run is followed for.
MaxLoads == 3

\* A call may start while every call in flight can still load a model
\* within MaxLoads.
CallRoom == Len(loadLog) + Cardinality({u \in Threads : tpc[u] # "idle"}) < MaxLoads

\* model.encode(texts): one vector per text, in order.
EncodeAll(texts) == [i \in 1..Len(texts) |-> Encode(texts[i])]

\* embed_query(query) is entered: _get_embedding_model() is called first.
EmbedQueryCall(t, q) ==
  /\ tpc[t] = "idle" /\ CallRoom
  /\ tpc' = [tpc EXCEPT ![t] = "eq_check"]
  /\ targ' = [targ EXCEPT ![t] = <<q>>]
  /\ tmodel' = [tmodel EXCEPT ![t] = 0]
  /\ tencoded' = [tencoded EXCEPT ![t] = <<>>]
  /\ UNCHANGED <<model_instance, loadLog, embedding_model, callVars, chunkVars>>

\* `if _embedding_model is None:`
LazyCheck(t) ==
  /\ tpc[t] = "eq_check"
  /\ tpc' = [tpc EXCEPT ![t] = IF model_instance = 0 THEN "eq_load" ELSE "eq_return"]
  /\ UNCHANGED <<targ, tmodel, tencoded, model_instance, loadLog, embedding_model,
                 callVars, chunkVars>>

\* SentenceTransformer("all-MiniLM-L6-v2"): a new instance, not yet stored.
LazyLoad(t) ==
  /\ tpc[t] = "eq_load"
  /\ loadLog' = Append(loadLog, "embed_query")
  /\ tmodel' = [tmodel EXCEPT ![t] = Len(loadLog) + 1]
  /\ tpc' = [tpc EXCEPT ![t] = "eq_assign"]
  /\ UNCHANGED <<targ, tencoded, model_instance, embedding_model, callVars, chunkVars>>

\* `_embedding_model = ` the new instance
LazyAssign(t) ==
  /\ tpc[t] = "eq_assign"
  /\ model_instance' = tmodel[t]
  /\ embedding_model' = TRUE
  /\ tpc' = [tpc EXCEPT ![t] = "eq_return"]
  /\ UNCHANGED <<targ, tmodel, tencoded, loadLog, callVars, chunkVars>>

\* `return _embedding_model`: the global as it is now.
LazyReturn(t) ==
  /\ tpc[t] = "eq_return"
  /\ tmodel' = [tmodel EXCEPT ![t] = model_instance]
  /\ tpc' = [tpc EXCEPT ![t] = "eq_encode"]
  /\ UNCHANGED <<targ, tencoded, model_instance, loadLog, embedding_model, callVars,
                 chunkVars>>

\* .encode([query])[0].tolist(), and embed_query returns.
QueryEncode(t) ==
  /\ tpc[t] = "eq_encode"
  /\ tencoded' = [tencoded EXCEPT ![t] = EncodeAll(targ[t])]
  /\ tpc' = [tpc EXCEPT ![t] = "idle"]
  /\ UNCHANGED <<targ, tmodel, model_instance, loadLog, embedding_model, callVars,
                 chunkVars>>

\* ingest.embed_chunks(chunks) is entered.
EmbedChunksCall(t, batch_chunks) ==
  /\ tpc[t] = "idle" /\ CallRoom
  /\ tpc' = [tpc EXCEPT ![t] = "ec_load"]
  /\ targ' = [targ EXCEPT ![t] = batch_chunks]
  /\ tmodel' = [tmodel EXCEPT ![t] = 0]
  /\ tencoded' = [tencoded EXCEPT ![t] = <<>>]
  /\ UNCHANGED <<model_instance, loadLog, embedding_model, callVars, chunkVars>>

\* model = SentenceTransformer("all-MiniLM-L6-v2"): a local, built anew by
\* every call; retrieve's global is neither read nor set.
ChunksLoad(t) ==
  /\ tpc[t] = "ec_load"
  /\ loadLog' = Append(loadLog, "embed_chunks")
  /\ tmodel' = [tmodel EXCEPT ![t] = Len(loadLog) + 1]
  /\ tpc' = [tpc EXCEPT ![t] = "ec_encode"]
  /\ UNCHANGED <<targ, tencoded, model_instance, embedding_model, callVars, chunkVars>>

\* embeddings = model.encode(chunks); return embeddings.tolist()
ChunksEncode(t) ==
  /\ tpc[t] = "ec_encode"
  /\ tencoded' = [tencoded EXCEPT ![t] = EncodeAll(targ[t])]
  /\ tpc' = [tpc EXCEPT ![t] = "idle"]
  /\ UNCHANGED <<targ, tmodel, model_instance, loadLog, embedding_model, callVars,
                 chunkVars>>

\* The API process: request threads inside embed_query, in any interleaving.
EmbedNext ==
  \/ \E t \in Threads, q \in Queries : EmbedQueryCall(t, q)
  \/ \E t \in Threads : LazyCheck(t)
  \/ \E t \in Threads : LazyLoad(t)
  \/ \E t \in Threads : LazyAssign(t)
  \/ \E t \in Threads : LazyReturn(t)
  \/ \E t \in Threads : QueryEncode(t)

SpecEmbed == Init /\ [][EmbedNext]_vars

\* One thread making embedding calls of both kinds one after the other.
MainThread == 1

EmbedSeqNext ==
  \/ \E q \in Queries : EmbedQueryCall(MainThread, q)
  \/ LazyCheck(MainThread)
  \/ LazyLoad(MainThread)
  \/ LazyAssign(MainThread)
  \/ LazyReturn(MainThread)
  \/ QueryEncode(MainThread)
  \/ \E batch_chunks \in Batches : EmbedChunksCall(MainThread, batch_chunks)
  \/ ChunksLoad(MainThread)
  \/ ChunksEncode(MainThread)

SpecEmbedSeq == Init /\ [][EmbedSeqNext]_vars


\* ================================================================ claims
\* The retry-wrapped function has returned to its caller.
WrappedReturned == pc \in {"returned", "rag_check", "rag_llm"} \/ (pc = "raised" /\ log # <<>> /\ log[Len(log)] = "ok")

\* The retry wrapper has let an exception out to the caller.
WrappedRaised == pc = "raised" /\ log # <<>> /\ log[Len(log)] # "ok"

ConnectionClass == {"OperationalError", "InterfaceError"}

AllTransient(l) == \A i \in 1..Len(l) : l[i] \in ConnectionClass

\* C1: when retrieval yields zero contexts, answer_with_rag returns exactly
\* {answer: "No relevant context found.", sources: []} and ollama.chat is
\* not called at any point of that call.
C1_EmptyContextsSentinel ==
  (op = "ask" /\ contexts = <<>>) =>
     /\ ollamaCalls = 0
     /\ pc # "rag_llm"
     /\ pc = "returned" =>
          result = [answer |-> "No relevant context found.", sources |-> <<>>]

\* C1 witness: a question whose retrieval came back empty has been answered.
C1_Witness ==
  /\ op = "ask" /\ pc = "returned"
  /\ log # <<>> /\ log[Len(log)] = "ok"
  /\ contexts = <<>>
  /\ result.answer = SentinelAnswer

\* C2: a wrapped store operation that fails with a transient error on
\* attempts 1..j-1 and succeeds on attempt j <= 3 returns that attempt's
\* result after exactly j runs: it is not given up before the third run, and
\* when it returns, the runs made are j-1 transient failures and one success,
\* the value being what the successful run read from the store.
C2_SucceedsOnAttemptJ ==
  /\ (WrappedRaised /\ AllTransient(log)) => Len(log) >= 3
  /\ (op # "none" /\ WrappedReturned) =>
       /\ Len(log) <= 3
       /\ attempt = Len(log)
       /\ AllTransient(SubSeq(log, 1, Len(log) - 1))
  /\ (op = "retrieve" /\ pc = "returned") =>
       \E r \in SelectTopK(documents, ticker, Encode(query), k) :
         contexts = [i \in 1..Len(r) |-> ContextOf(r[i])]
  /\ (op = "store" /\ pc = "returned") => committedByCall >= Len(batch)

\* C2 witness: two transient failures, then a third run that succeeded.
C2_Witness ==
  /\ op = "retrieve" /\ pc = "returned"
  /\ Len(log) = 3
  /\ log[1] \in ConnectionClass /\ log[2] \in ConnectionClass /\ log[3] = "ok"
  /\ contexts # <<>>

\* C3: a wrapped store operation that fails with a transient error on every
\* attempt is run exactly 3 times, never a 4th, and the caller then gets the
\* last error itself, not a wrapper around it.
C3_ExhaustionReraises ==
  /\ Len(log) <= 3 /\ attempt <= 3
  /\ (WrappedRaised /\ AllTransient(log)) =>
       /\ Len(log) = 3
       /\ attempt = 3
       /\ err = log[3]

\* C3 witness: three transient failures and the error is with the caller.
C3_Witness ==
  /\ pc = "raised" /\ Len(log) = 3 /\ AllTransient(log)
  /\ err \in ConnectionClass

\* C4: a store operation that fails with an error outside the connection
\* class is not run again: that run is the last one, and the error reaches
\* the caller as it is; as the first failure, it leaves exactly one run.
C4_NonTransientNotRetried ==
  \A i \in 1..Len(log) :
    log[i] \notin (ConnectionClass \cup {"ok"}) =>
      /\ i = Len(log)
      /\ pc \in {"retry", "raised"}
      /\ pc = "raised" => err = log[i]

\* C4 witness: store_in_pgvector ran once, hit a data error, and raised it.
C4_Witness ==
  /\ op = "store" /\ pc = "raised"
  /\ log = <<"DataError">>
  /\ err = "DataError"

\* C5: a transient failure of the generation service is retried, up to 3
\* calls in all, before answer_with_rag lets the error out.
C5_OllamaRetried ==
  (op = "ask" /\ pc = "raised" /\ log # <<>> /\ log[Len(log)] = "ok"
     /\ err \in {"ConnectionError", "TimeoutError"})
    => ollamaCalls = 3

\* C9: whatever attempts store_in_pgvector makes for one batch, the table
\* holds no record of the batch or exactly one record per (chunk, vector)
\* pair.
C9_BatchOnceOrNever ==
  op = "store" => committedByCall \in {0, Len(batch)}

\* C10: a retrieve_context call with ticker filter X returns only contexts
\* whose ticker is X.
C10_TickerFilterExact ==
  (op \in {"ask", "retrieve"} /\ ticker \notin {None, ""}) =>
     \A i \in 1..Len(contexts) : contexts[i].ticker = ticker

\* C10 witness: a filtered query answered from a table that also holds rows
\* of another ticker.
C10_Witness ==
  /\ op = "retrieve" /\ pc = "returned"
  /\ ticker = "AAPL"
  /\ contexts # <<>>
  /\ \E r \in BagToSet(documents) : r.ticker = "GOOGL"

\* retrieve_context has fetched its rows in the call in progress.
Retrieved ==
  /\ op \in {"ask", "retrieve"}
  /\ pc = "rc_close" \/ (log # <<>> /\ log[Len(log)] = "ok")

\* The stored records the call's filter lets through, with their copies.
MatchingBag ==
  LET S == {r \in BagToSet(documents) : ticker \notin {None, ""} => r.ticker = ticker}
  IN [r \in S |-> CopiesIn(r, documents)]

\* The stored record a returned context was read from.
RowOfContext(c) == Row(c.content, c.ticker)

\* C11: for a query, a positive k and an optional ticker filter,
\* retrieve_context returns exactly min(k, m) contexts, m being the number of
\* stored records that match the filter (all of them without a filter); they
\* are stored matching records, each taken at most as often as it is stored,
\* in ascending cosine distance to the query, and no record left out is
\* closer to the query than one returned.
C11_TopKByDistance ==
  Retrieved =>
    LET q == Encode(query)
        rows == [i \in 1..Len(contexts) |-> RowOfContext(contexts[i])]
    IN /\ k >= 1
       /\ Len(contexts) = Min(k, BagCardinality(MatchingBag))
       /\ \A i \in 1..Len(rows) :
            /\ rows[i] \in DOMAIN MatchingBag
            /\ Occurrences(rows, rows[i]) <= MatchingBag[rows[i]]
            /\ contexts[i] = [content |-> rows[i].content, ticker |-> rows[i].ticker,
                              source |-> rows[i].source]
       /\ \A i \in 1..(Len(rows) - 1) :
            ~Closer(rows[i + 1].embedding, rows[i].embedding, q)
       /\ \A x \in DOMAIN MatchingBag :
            Occurrences(rows, x) < MatchingBag[x]
              => \A i \in 1..Len(rows) : ~Closer(x.embedding, rows[i].embedding, q)

\* C11 witness: k = 1 took the nearer of two matching records and left the
\* farther one out (with k = 2 and one matching record the one record comes
\* back alone: that state is reachable too).
C11_Witness ==
  /\ op = "retrieve" /\ pc = "returned"
  /\ k = 1 /\ Len(contexts) = 1
  /\ \E x \in DOMAIN MatchingBag :
       Closer(RowOfContext(contexts[1]).embedding, x.embedding, Encode(query))

\* Alias number i of TICKER_MAP occurs in the query at some offset, letter
\* case aside.
AliasOccurs(i) ==
  LET name == TICKER_MAP[i][1]
  IN \E o \in 0..(Len(query) - Len(name)) :
       \A j \in 1..Len(name) : LowerChar(query[o + j]) = LowerChar(name[j])

\* C12: infer_ticker_from_query returns the ticker of the first alias, in
\* TICKER_MAP declaration order, that occurs in the query as a substring,
\* letter case ignored, and None exactly when no alias occurs in it.
C12_FirstAliasInMapOrder ==
  pc = "inferred" =>
    LET hits == {i \in 1..Len(TICKER_MAP) : AliasOccurs(i)}
    IN /\ (ticker = None) <=> (hits = {})
       /\ \A i \in hits : (\A j \in hits : i <= j) => ticker = TICKER_MAP[i][2]

\* C12 witness: "meta" comes first in the query and "apple", in capitals
\* and earlier in TICKER_MAP, later: the answer is AAPL.
C12_Witness ==
  /\ pc = "inferred"
  /\ query = <<"m", "e", "t", "a", " ", "A", "p", "p", "l", "e">>
  /\ ticker = "AAPL"

\* C13: when GET /ask is given a ticker, retrieval is scoped by that ticker
\* whatever the question would infer: it is the filter retrieve_context
\* gets and every context carries it; a ticker inferred from the question is
\* the filter only when none was given.
C13_ExplicitTickerWins ==
  op = "ask" =>
    /\ tickerParam \notin {None, ""} =>
         /\ ticker = tickerParam
         /\ \A i \in 1..Len(contexts) : contexts[i].ticker = tickerParam
    /\ (pc # "responded" /\ tickerParam \in {None, ""}) =>
         ticker = infer_ticker_from_query(query)

\* C13 witness: the question names Google, the parameter says AAPL, the
\* table holds rows of both, and the answer was built from AAPL rows.
C13_Witness ==
  /\ op = "ask" /\ pc = "returned" /\ status = 200
  /\ tickerParam = "AAPL"
  /\ infer_ticker_from_query(query) = "GOOGL"
  /\ contexts # <<>>
  /\ \E r \in BagToSet(documents) : r.ticker = "GOOGL"

\* C16: when retrieval for GET /ask fails with a transient error on every
\* attempt the retry policy allows, the client gets a 503, not the 422 of an
\* invalid request.
C16_BackendFailureIs503 ==
  (op = "ask" /\ status # 0 /\ WrappedRaised /\ AllTransient(log)) =>
     (status = 503 /\ status # 422)

\* C17: GET /health answers 200 with status "healthy" exactly when both
\* checks returned ok, and 503 with status "unhealthy" in every other case,
\* a check letting an exception out included.
C17_HealthComposite ==
  (op = "health" /\ pc = "responded") =>
    LET bothOk == /\ err = None
                  /\ health.database = <<TRUE, "ok">>
                  /\ health.ollama = <<TRUE, "ok">>
    IN /\ bothOk => (status = 200 /\ body.status = "healthy")
       /\ ~bothOk => (status = 503 /\ body.status = "unhealthy")

\* C17 witness: the store answered, the generation service did not, and the
\* response is out.
C17_Witness ==
  /\ op = "health" /\ pc = "responded"
  /\ health.database[1] /\ ~health.ollama[1]
  /\ status = 503

\* answer_with_rag has returned an answer built from contexts.
Answered == op = "ask" /\ pc = "returned" /\ contexts # <<>>

\* C14 as stated: one source per context, in retrieval order, with the
\* context's ticker and a preview that is exactly the first 200 characters
\* of its content, so never longer than 200.
C14_PreviewFirst200 ==
  Answered =>
    /\ Len(result.sources) = Len(contexts)
    /\ \A i \in 1..Len(contexts) :
         /\ result.sources[i].ticker = contexts[i].ticker
         /\ result.sources[i].content
              = SubSeq(contexts[i].content, 1, Min(200, Len(contexts[i].content)))
         /\ Len(result.sources[i].content) <= 200

\* C14 amended: one source per context, in retrieval order, with the
\* context's ticker and a preview that is the first 200 characters of its
\* content followed by "...", so never longer than 203.
C14_PreviewFirst200Ellipsis ==
  Answered =>
    /\ Len(result.sources) = Len(contexts)
    /\ \A i \in 1..Len(contexts) :
         /\ result.sources[i].ticker = contexts[i].ticker
         /\ result.sources[i].content
              = SubSeq(contexts[i].content, 1, Min(200, Len(contexts[i].content)))
                  \o <<".", ".", ".">>
         /\ Len(result.sources[i].content) <= 203

\* C14 witness: two contexts, the second longer than 200 characters, and
\* its preview cut.
C14_Witness ==
  /\ Answered
  /\ Len(contexts) = 2
  /\ Len(contexts[2].content) > 200
  /\ Len(result.sources[2].content) = 203

\* The least offset from `from` on at which s occurs in p, -1 when none.
FirstAt(p, s, from) ==
  LET S == {o \in from..(Len(p) - Len(s)) : SubSeq(p, o + 1, o + Len(s)) = s}
  IN IF S = {} THEN -1 ELSE CHOOSE o \in S : \A o2 \in S : o <= o2

\* The offset just behind the last block when blocks i.. occur in p one
\* after the other from `from` on, -1 when they do not.
RECURSIVE PlacedEnd(_, _, _, _)
PlacedEnd(p, blocks, i, from) ==
  IF i > Len(blocks) THEN from
  ELSE LET o == FirstAt(p, blocks[i], from)
       IN IF o < 0 THEN -1 ELSE PlacedEnd(p, blocks, i + 1, o + Len(blocks[i]))

\* The prompt of the call in progress has been built.
PromptBuilt == op = "ask" /\ pc \in {"rag_llm", "returned", "raised"} /\ contexts # <<>>

BlockLabel(i) == <<"[">> \o IntToStr(i) \o <<"]", " ", "(", contexts[i].ticker, ")", "\n">>

QuestionText == <<"Q", "u", "e", "s", "t", "i", "o", "n", ":", " ">> \o query

\* C18 as stated: the prompt holds, for i = 1..n in the order received, the
\* block "[i] (ticker_i)" followed by context i's content, block i before
\* block i+1, and all blocks before the question text.
C18_BlocksWithContent ==
  PromptBuilt =>
    LET blocks == [i \in 1..Len(contexts) |-> BlockLabel(i) \o contexts[i].content]
        end == PlacedEnd(prompt, blocks, 1, 0)
    IN end >= 0 /\ FirstAt(prompt, QuestionText, end) >= 0

\* C18 amended: the prompt holds, for i = 1..n in the order received, the
\* block "[i] (ticker_i)" followed by context i's content without its
\* leading and trailing whitespace, block i before block i+1, and all blocks
\* before the question text.
C18_BlocksWithTrimmedContent ==
  PromptBuilt =>
    LET blocks == [i \in 1..Len(contexts) |-> BlockLabel(i) \o Strip(contexts[i].content)]
        end == PlacedEnd(prompt, blocks, 1, 0)
    IN end >= 0 /\ FirstAt(prompt, QuestionText, end) >= 0

\* C18 witness: a prompt over two different contexts, the first with
\* whitespace around its content.
C18_Witness ==
  /\ PromptBuilt
  /\ Len(contexts) = 2
  /\ contexts[1] # contexts[2]
  /\ Strip(contexts[1].content) # contexts[1].content

\* A thread is using a model to encode.
Encoding(t) == tpc[t] \in {"eq_encode", "ec_encode"}

\* C15: in a sequence of embedding calls of one process, batches of chunks
\* and single queries alike, the model is loaded once, at the first call,
\* and every call encodes with that one instance.
C15_LoadedOnceReused ==
  /\ Len(loadLog) <= 1
  /\ Encoding(MainThread) => tmodel[MainThread] = 1

\* C20: when several requests are inside the query embedder before the
\* model is there, it is still loaded at most once and all of them encode
\* with the same instance.
C20_ConcurrentInitOnce ==
  /\ Cardinality({i \in 1..Len(loadLog) : loadLog[i] = "embed_query"}) <= 1
  /\ \A t \in Threads, u \in Threads :
       (tpc[t] = "eq_encode" /\ tpc[u] = "eq_encode") => tmodel[t] = tmodel[u]

\* C21: one invocation of retrieve_context embeds the query exactly once,
\* however many attempts the retry policy makes of its store access.
C21_EmbedOncePerCall ==
  op \in {"ask", "retrieve"} =>
    /\ embedCalls <= 1
    /\ pc \in {"returned", "raised"} => embedCalls = 1

\* C23: a connection opened by an attempt of retrieve_context or
\* store_in_pgvector is closed when that attempt returns or raises: none is
\* open while the retry policy decides, nor when the call has ended.
C23_ConnectionsClosed ==
  (op \in {"store", "retrieve", "ask"} /\ pc \in {"retry", "returned", "raised"}) =>
     callConns = 0

\* The chunker was called with chunk_size > overlap >= 0.
ValidChunking == chunk_size > overlap /\ overlap >= 0

WindowLen(w) == w[2] - w[1]

\* The tokens window w takes out of the document's token sequence.
WindowTokens(w) == PySlice(Tokens, w[1], w[2])

\* The chunks the windows ws give rise to: the text of each window that is
\* not blank, in order.
RECURSIVE EmittedFrom(_)
EmittedFrom(ws) ==
  IF ws = <<>> THEN <<>>
  ELSE LET chunk_text == TokenDecode(WindowTokens(Head(ws)))
       IN (IF NonBlank(chunk_text) THEN <<chunk_text>> ELSE <<>>) \o EmittedFrom(Tail(ws))

\* C19: every chunk emitted is the text of one window of the document's
\* token sequence, and no window spans more than chunk_size tokens.
C19_ChunkWithinSize ==
  /\ chunks = EmittedFrom(windows)
  /\ \A i \in 1..Len(windows) : Len(WindowTokens(windows[i])) <= chunk_size

\* C19 witness: a document longer than one window was cut into several
\* chunks, one of them a full window.
C19_Witness ==
  /\ cpc = "returned" /\ ValidChunking
  /\ Len(Tokens) > chunk_size /\ chunk_size >= 2
  /\ Len(chunks) >= 2
  /\ \E i \in 1..Len(windows) : Len(WindowTokens(windows[i])) = chunk_size

\* The least number of strides of length d that reach n.
CeilDiv(n, d) == (n + d - 1) \div d

\* What holds of the windows at every point of a run with a valid overlap:
\* window i starts at (i-1) * stride, the loop is left exactly when the
\* start has reached the token count, and there are at most
\* ceil(n / stride) windows, hence chunks.
ChunkerProgress ==
  LET n == Len(Tokens)
      stride == chunk_size - overlap
  IN /\ \A i \in 1..Len(windows) : windows[i][1] = (i - 1) * stride
     /\ start = Len(windows) * stride
     /\ cpc = "loop" => (start < n \/ windows = <<>>)
     /\ cpc = "returned" => start >= n
     /\ Len(windows) <= CeilDiv(n, stride)
     /\ Len(chunks) <= Len(windows)
     /\ n = 0 => chunks = <<>>

\* C22: with chunk_size > overlap >= 0, chunk_with_overlap terminates: the
\* start begins at 0 and advances by stride = chunk_size - overlap, the loop
\* stops once the start reaches the token count n, and at most
\* ceil(n / stride) chunks are emitted, none for an empty text.
C22_TerminatesWithinBound ==
  /\ [](ValidChunking => ChunkerProgress)
  /\ (cpc = "loop" /\ ValidChunking) ~> (cpc = "returned")

\* C22 witness: a run that took ceil(n / stride) windows, more than one,
\* with a stride of several tokens, and returned a chunk for each.
C22_Witness ==
  /\ cpc = "returned" /\ ValidChunking
  /\ chunk_size - overlap >= 2
  /\ Len(windows) >= 2
  /\ Len(chunks) = CeilDiv(Len(Tokens), chunk_size - overlap)

\* Token position p (counted from 0) lies in the i-th window.
InWindow(p, i) == windows[i][1] <= p /\ p < windows[i][2]

\* C24: for valid (size, overlap) the windows of chunk_with_overlap cover the
\* document: the first starts at offset 0, each next one starts no later than
\* the end of the one before, and once the call has returned the last one
\* ends at the final token, so that every token position is in some window.
C24_WindowsCover ==
  ValidChunking =>
    LET n == Len(Tokens)
    IN /\ windows # <<>> => windows[1][1] = 0
       /\ \A i \in 1..(Len(windows) - 1) : windows[i + 1][1] <= windows[i][2]
       /\ cpc = "returned" =>
            /\ n > 0 => (windows # <<>> /\ windows[Len(windows)][2] = n)
            /\ \A p \in 0..(n - 1) : \E i \in 1..Len(windows) : InWindow(p, i)

\* A returned call with several windows, consecutive ones sharing tokens.
C24_Witness ==
  /\ cpc = "returned" /\ ValidChunking
  /\ overlap > 0
  /\ Len(windows) >= 3
  /\ windows[2][1] < windows[1][2]
  /\ windows[Len(windows)][2] - windows[Len(windows)][1] < chunk_size

\* C6: for a non-blank text of fewer than chunk_size tokens and a valid
\* overlap, chunk_with_overlap returns exactly one chunk, the text's trimmed
\* content.
C6_ShortTextOneTrimmedChunk ==
  (cpc = "returned" /\ ValidChunking /\ Strip(text) # <<>> /\ Len(Tokens) < chunk_size)
    => chunks = <<Strip(text)>>

\* C7: consecutive windows share exactly `overlap` tokens, and only the
\* final window may be shorter than chunk_size (it shares its leading edge).
C7_ExactOverlap ==
  (cpc = "returned" /\ ValidChunking) =>
     /\ \A i \in 1..(Len(windows) - 1) : WindowLen(windows[i]) = chunk_size
     /\ \A i \in 1..(Len(windows) - 1) :
          windows[i][2] - windows[i + 1][1]
            = IF i + 1 = Len(windows)
              THEN Min(overlap, WindowLen(windows[i + 1]))
              ELSE overlap

\* C8: with overlap >= chunk_size the chunker ends with an error at first
\* use: it takes no window and does not return a list.
C8_BadOverlapRejected ==
  overlap >= chunk_size => (cpc # "returned" /\ windows = <<>>)

====
